---- MODULE Spec2Model ----
(***************************************************************************)
(* A model of media/rtp/rtp_transceiver.rs: the RTPTransceiver (mid,       *)
(* sender, receiver, direction, codec preferences) and the two functions   *)
(* that pluck a transceiver from a pool of local transceivers,             *)
(* find_by_mid and satisfy_type_and_direction.                             *)
(***************************************************************************)
EXTENDS Integers, Sequences, FiniteSets, TLC

\* ------------------------------------------------------------------ bounds

\* Longest codec list handed to set_codec_preferences or to new.
MaxCodecs == 2
\* Most set_mid calls that are let succeed on one transceiver.
MaxSetMid == 2
\* Longest pool of local transceivers.
MaxPool == 3

\* ------------------------------------------------------------- data types

\* Option<T>: None is the empty sequence, Some(x) the one-element sequence.
None == << >>
Some(x) == << x >>

\* The sequences over S of length at most n.
SeqsUpTo(S, n) == UNION { [1..k -> S] : k \in 0..n }

\* RTPTransceiverDirection, an enum with discriminants 0..4.
Directions == { "Sendrecv", "Sendonly", "Recvonly", "Inactive" }
AllDirections == Directions \cup { "Unspecified" }

\* `direction as u8`
DirectionAsU8(d) ==
    CASE d = "Sendrecv" -> 1
      [] d = "Sendonly" -> 2
      [] d = "Recvonly" -> 3
      [] d = "Inactive" -> 4
      [] OTHER -> 0

\* `impl From<u8> for RTPTransceiverDirection`
DirectionFromU8(n) ==
    CASE n = 1 -> "Sendrecv"
      [] n = 2 -> "Sendonly"
      [] n = 3 -> "Recvonly"
      [] n = 4 -> "Inactive"
      [] OTHER -> "Unspecified"

\* RTPCodecType
Kinds == { "Audio", "Video" }

\* The mid values used: "" is the unassigned mid.
Mids == { "", "m1", "m2" }

\* Option<Arc<dyn TrackLocal>>: one track is enough, its identity is never read.
Tracks == { None, Some("track") }

\* The sender and receiver handles: all the transceiver can see of them is
\* whether their stop has succeeded.
Senders == { None, Some([stopped |-> FALSE]), Some([stopped |-> TRUE]) }
Receivers == { None, Some([stopped |-> FALSE]), Some([stopped |-> TRUE]) }

\* ----------------------------------------------------------------- codecs

Codec(m, f, p) == [mime_type |-> m, sdp_fmtp_line |-> f, payload_type |-> p]

\* RTPCodecParameters::default()
DefaultCodec == Codec("", "", 0)

\* Entries of the media engine's tables.
OpusEngine == Codec("audio/opus", "minptime=10", 111)
PcmuEngine == Codec("audio/PCMU", "", 0)
Vp8Engine == Codec("video/VP8", "", 96)

\* Codecs a caller prefers: opus as the engine has it but with another payload
\* type, opus with another fmtp line, VP8, and PCMU.
OpusExact == Codec("audio/opus", "minptime=10", 100)
OpusPartial == Codec("audio/opus", "", 100)
Vp8Exact == Codec("video/VP8", "", 100)
PcmuExact == Codec("audio/PCMU", "", 8)
\* The codecs of the lists where the engine changes: all audio, so that a list
\* can match codec by codec while the engine changes under it.
CandidateCodecs == { OpusExact, OpusPartial, PcmuExact }
CodecLists == SeqsUpTo(CandidateCodecs, MaxCodecs)
\* The lists preferred where the other operations are explored as well: the
\* reset, a list the default engine has a codec for when the kind is audio,
\* and one it has a codec for when the kind is video.
FewCodecLists == { << >>, << OpusExact >>, << Vp8Exact >> }

\* The media engine, as far as the transceiver reads it: a list per kind.
MediaEngines ==
    [ audio : { << >>, << OpusEngine >>, << PcmuEngine >>,
                << PcmuEngine, OpusEngine >> },
      video : { << >>, << Vp8Engine >> } ]
DefaultMediaEngine == [audio |-> << OpusEngine >>, video |-> << Vp8Engine >>]

\* MediaEngine::get_codecs_by_kind
get_codecs_by_kind(engine, typ) ==
    CASE typ = "Audio" -> engine.audio
      [] typ = "Video" -> engine.video
      [] OTHER -> << >>

\* The index at which a loop over a vector returns: the least of the indices
\* at which its test holds, 0 when it holds at none.
FirstIndex(hits) ==
    IF hits = {} THEN 0 ELSE CHOOSE i \in hits : \A j \in hits : i <= j

\* The indices of vector v.
Indices(v) == 1..Len(v)

\* codec_parameters_fuzzy_search: the first entry with the needle's mime type
\* and fmtp line (Exact), else the first with its mime type (Partial), else
\* the default codec and no match (None).
codec_parameters_fuzzy_search(needle, haystack) ==
    LET SameBoth(c) == /\ c.mime_type = needle.mime_type
                       /\ c.sdp_fmtp_line = needle.sdp_fmtp_line
        SameMime(c) == c.mime_type = needle.mime_type
        e == FirstIndex({ i \in Indices(haystack) : SameBoth(haystack[i]) })
        p == FirstIndex({ i \in Indices(haystack) : SameMime(haystack[i]) })
    IN  IF e # 0 THEN << haystack[e], "Exact" >>
        ELSE IF p # 0 THEN << haystack[p], "Partial" >>
        ELSE << DefaultCodec, "None" >>

\* The match tier of each codec of cs against the engine's list for kind k.
TiersOf(cs, engine, k) ==
    [i \in Indices(cs) |->
        codec_parameters_fuzzy_search(cs[i], get_codecs_by_kind(engine, k))[2]]

\* -------------------------------------------------------------- the state

VARIABLES
    mid,            \* RTPTransceiver.mid
    sender,         \* RTPTransceiver.sender
    receiver,       \* RTPTransceiver.receiver
    direction,      \* RTPTransceiver.direction, the AtomicU8
    codecs,         \* RTPTransceiver.codecs
    stopped,        \* RTPTransceiver.stopped
    kind,           \* RTPTransceiver.kind
    media_engine,   \* RTPTransceiver.media_engine, what the Arc points to
    last,           \* history: the last call, its arguments, result and pre-state
    mid_ok,         \* history: the number of set_mid calls that returned Ok
    mid_assigned,   \* history: those of them whose argument was non-empty
    first_mid,      \* history: the first non-empty mid stored
    stop_ok,        \* history: stop has returned Ok, and set_direction was not called since
    codecs_tiers,   \* history: the match tier each stored codec had when it was stored
    local_transceivers, \* the pool find_by_mid and satisfy_type_and_direction pluck from
    pool_call,      \* history: the last call on the pool, its result and the pool before it
    taken,          \* history: the ids of the transceivers returned so far
    retaken,        \* history: a call has returned a transceiver returned before
    written,        \* history: the directions stored so far, the constructed one included
    latest,         \* history: the latest store, its direction and the call that made it
    observed        \* history: what the latest direction() returned, and when

tvars == << mid, sender, receiver, direction, codecs, stopped, kind, media_engine >>
hvars == << last, mid_ok, mid_assigned, first_mid, stop_ok, codecs_tiers >>
pvars == << local_transceivers, pool_call, taken, retaken >>
cvars == << written, latest, observed >>
vars == << tvars, hvars, pvars, cvars >>

\* RTPTransceiver::direction
Direction == DirectionFromU8(direction)

\* The direction a track was attached from: Some(d) when the last call was a
\* successful set_sending_track or set_sender with a track on a transceiver
\* whose direction was d, Recvonly or Inactive.
AttachedFrom ==
    IF /\ last.op \in { "set_sending_track", "set_sender" }
       /\ last.track # None
       /\ last.result = "Ok"
       /\ last.pre.direction \in { "Recvonly", "Inactive" }
    THEN Some(last.pre.direction)
    ELSE None

\* The preferences a reset replaced: Some(cs) when the last call was
\* set_codec_preferences with the empty list on a transceiver that stored cs.
ResetOf ==
    IF last.op = "set_codec_preferences" /\ last.arg = << >>
    THEN Some(last.pre.codecs)
    ELSE None

\* The fields of the transceiver a call can change, as they were before it,
\* with what the history told before it.
Pre == [mid |-> mid, sender |-> sender, receiver |-> receiver,
        direction |-> Direction, codecs |-> codecs,
        stop_ok |-> stop_ok, attached_from |-> AttachedFrom,
        reset_of |-> ResetOf]

Call(op, arg, track, result, calls, ret) ==
    [op |-> op, arg |-> arg, track |-> track, result |-> result,
     calls |-> calls, ret |-> ret, pre |-> Pre]

\* ------------------------------------------------- the transceiver's code

\* RTPTransceiver::new: the caller's receiver, sender, direction, kind, codecs
\* and media engine are stored as given; mid is empty and stopped is false.
new(r, s, d, k, cs, engine) ==
    [mid |-> "", sender |-> s, receiver |-> r, direction |-> DirectionAsU8(d),
     codecs |-> cs, stopped |-> FALSE, kind |-> k, media_engine |-> engine]

\* set_codec_preferences storing each codec as soon as it has matched, so that
\* the codecs before the first unmatched one are kept.
set_codec_preferences_partial(stored, cs, i, engine, k) ==
    IF i = 0
    THEN [codecs |-> << >>, result |-> IF cs = << >> THEN "Ok" ELSE "Pending"]
    ELSE IF codec_parameters_fuzzy_search(cs[i], get_codecs_by_kind(engine, k))[2] = "None"
    THEN [codecs |-> stored, result |-> "ErrRTPTransceiverCodecUnsupported"]
    ELSE [codecs |-> Append(stored, cs[i]),
          result |-> IF i < Len(cs) THEN "Pending" ELSE "Ok"]

\* RTPTransceiver::set_codec_preferences, from one suspension to the next. The
\* call awaits the engine's codecs of the transceiver's kind once for every
\* codec of cs. With i = 0 it is the call up to its first await, engine not
\* read: an empty cs is stored at once. With i > 0 it is what the call does
\* when its i-th await returns the codecs of engine: the i-th codec is
\* searched for in them; without a match the call ends with an error and
\* nothing stored; with one the call awaits again (Pending) or, after the
\* last codec, stores cs.
set_codec_preferences(stored, cs, i, engine, k) ==
    IF i = 0
    THEN IF cs = << >>
         THEN [codecs |-> cs, result |-> "Ok"]
         ELSE [codecs |-> stored, result |-> "Pending"]
    ELSE IF codec_parameters_fuzzy_search(cs[i], get_codecs_by_kind(engine, k))[2] = "None"
    THEN [codecs |-> stored, result |-> "ErrRTPTransceiverCodecUnsupported"]
    ELSE IF i < Len(cs)
    THEN [codecs |-> stored, result |-> "Pending"]
    ELSE [codecs |-> cs, result |-> "Ok"]

\* The loop of get_codecs: the engine's codec of every stored codec that has a
\* match, in the order of the stored list.
RECURSIVE filtered_codecs(_, _)
filtered_codecs(stored, engine_codecs) ==
    IF stored = << >> THEN << >>
    ELSE LET found == codec_parameters_fuzzy_search(Head(stored), engine_codecs)
             rest == filtered_codecs(Tail(stored), engine_codecs)
         IN  IF found[2] # "None" THEN << found[1] >> \o rest ELSE rest

\* get_codecs returning the stored codecs that have a match as they were
\* stored, not the engine's codecs they matched.
get_codecs_raw(stored, engine, k) ==
    LET Matched(c) ==
            codec_parameters_fuzzy_search(c, get_codecs_by_kind(engine, k))[2] # "None"
    IN  IF stored = << >> THEN get_codecs_by_kind(engine, k)
        ELSE SelectSeq(stored, Matched)

\* get_codecs without the test for an empty stored list.
get_codecs_no_default(stored, engine, k) ==
    filtered_codecs(stored, get_codecs_by_kind(engine, k))

\* RTPTransceiver::get_codecs
get_codecs(stored, engine, k) ==
    IF stored = << >> THEN get_codecs_by_kind(engine, k)
    ELSE filtered_codecs(stored, get_codecs_by_kind(engine, k))

\* set_mid without the test of the current mid.
set_mid_overwrites(cur, m) == [mid |-> m, result |-> "Ok"]

\* set_mid testing its argument where it should test the current mid.
set_mid_tests_argument(cur, m) ==
    IF m = "" THEN [mid |-> cur, result |-> "ErrRTPTransceiverCannotChangeMid"]
    ELSE [mid |-> m, result |-> "Ok"]

\* RTPTransceiver::set_mid
set_mid(cur, m) ==
    IF cur # "" THEN [mid |-> cur, result |-> "ErrRTPTransceiverCannotChangeMid"]
    ELSE [mid |-> m, result |-> "Ok"]

\* RTPSender::stop and RTPReceiver::stop, when they succeed.
Stopped(handle) == Some([stopped |-> TRUE])

\* stop storing Inactive only when it has stopped a sender or a receiver.
stop_keeps_direction(s, r, d, sender_ok, receiver_ok) ==
    IF s # None /\ ~sender_ok
    THEN [sender |-> s, receiver |-> r, direction |-> d,
          result |-> "ErrSenderStop", calls |-> << "sender.stop" >>]
    ELSE IF r # None /\ ~receiver_ok
    THEN [sender |-> IF s # None THEN Stopped(s) ELSE s, receiver |-> r,
          direction |-> d, result |-> "ErrReceiverStop",
          calls |-> (IF s # None THEN << "sender.stop" >> ELSE << >>)
                      \o << "receiver.stop" >>]
    ELSE [sender |-> IF s # None THEN Stopped(s) ELSE s,
          receiver |-> IF r # None THEN Stopped(r) ELSE r,
          direction |-> IF s = None /\ r = None THEN d ELSE DirectionAsU8("Inactive"),
          result |-> "Ok",
          calls |-> (IF s # None THEN << "sender.stop" >> ELSE << >>)
                      \o (IF r # None THEN << "receiver.stop" >> ELSE << >>)]

\* stop without the `?` on the sender's stop: the receiver is stopped whatever
\* the sender's stop returned, and the sender's error is returned at the end.
stop_no_short_circuit(s, r, d, sender_ok, receiver_ok) ==
    LET c1 == IF s # None THEN << "sender.stop" >> ELSE << >>
        c2 == IF r # None THEN << "receiver.stop" >> ELSE << >>
        s1 == IF s # None /\ sender_ok THEN Stopped(s) ELSE s
        r1 == IF r # None /\ receiver_ok THEN Stopped(r) ELSE r
    IN  IF s # None /\ ~sender_ok
        THEN [sender |-> s1, receiver |-> r1, direction |-> d,
              result |-> "ErrSenderStop", calls |-> c1 \o c2]
        ELSE IF r # None /\ ~receiver_ok
        THEN [sender |-> s1, receiver |-> r1, direction |-> d,
              result |-> "ErrReceiverStop", calls |-> c1 \o c2]
        ELSE [sender |-> s1, receiver |-> r1,
              direction |-> DirectionAsU8("Inactive"),
              result |-> "Ok", calls |-> c1 \o c2]

\* stop leaving alone a sender and a receiver that are stopped already.
stop_skips_stopped(s, r, d, sender_ok, receiver_ok) ==
    LET s_live == s # None /\ s # Stopped(s)
        r_live == r # None /\ r # Stopped(r)
        c1 == IF s_live THEN << "sender.stop" >> ELSE << >>
    IN  IF s_live /\ ~sender_ok
        THEN [sender |-> s, receiver |-> r, direction |-> d,
              result |-> "ErrSenderStop", calls |-> c1]
        ELSE IF r_live /\ ~receiver_ok
        THEN [sender |-> IF s_live THEN Stopped(s) ELSE s, receiver |-> r,
              direction |-> d, result |-> "ErrReceiverStop",
              calls |-> c1 \o << "receiver.stop" >>]
        ELSE [sender |-> IF s_live THEN Stopped(s) ELSE s,
              receiver |-> IF r_live THEN Stopped(r) ELSE r,
              direction |-> DirectionAsU8("Inactive"),
              result |-> "Ok",
              calls |-> c1 \o (IF r_live THEN << "receiver.stop" >> ELSE << >>)]

\* set_direction storing the discriminant of an enum that counts from zero.
set_direction_zero_based(d) == DirectionAsU8(d) - 1

\* RTPTransceiver::set_direction: the u8 stored in the AtomicU8.
set_direction(d) == DirectionAsU8(d)

\* RTPTransceiver::stop. sender_ok and receiver_ok are the results of the
\* sender's and the receiver's stop; calls lists the stops that were made.
stop(s, r, d, sender_ok, receiver_ok) ==
    IF s # None /\ ~sender_ok
    THEN [sender |-> s, receiver |-> r, direction |-> d,
          result |-> "ErrSenderStop", calls |-> << "sender.stop" >>]
    ELSE LET s1 == IF s # None THEN Stopped(s) ELSE s
             c1 == IF s # None THEN << "sender.stop" >> ELSE << >>
         IN  IF r # None /\ ~receiver_ok
             THEN [sender |-> s1, receiver |-> r, direction |-> d,
                   result |-> "ErrReceiverStop",
                   calls |-> c1 \o << "receiver.stop" >>]
             ELSE [sender |-> s1,
                   receiver |-> IF r # None THEN Stopped(r) ELSE r,
                   direction |-> DirectionAsU8("Inactive"),
                   result |-> "Ok",
                   calls |-> c1 \o (IF r # None THEN << "receiver.stop" >> ELSE << >>)]

\* The chain with the targets of its first two branches exchanged.
sending_direction_exchanged(track_is_none, d) ==
    IF ~track_is_none /\ d = "Recvonly"
    THEN [store |-> Some("Sendonly"), result |-> "Ok"]
    ELSE IF ~track_is_none /\ d = "Inactive"
    THEN [store |-> Some("Sendrecv"), result |-> "Ok"]
    ELSE IF track_is_none /\ d = "Sendrecv"
    THEN [store |-> Some("Recvonly"), result |-> "Ok"]
    ELSE IF ~track_is_none /\ (d = "Sendonly" \/ d = "Sendrecv")
    THEN [store |-> None, result |-> "Ok"]
    ELSE IF track_is_none /\ d = "Sendonly"
    THEN [store |-> Some("Inactive"), result |-> "Ok"]
    ELSE [store |-> None, result |-> "ErrRTPTransceiverSetSendingInvalidState"]

\* The chain storing Inactive before it returns the invalid-state error.
sending_direction_error_resets(track_is_none, d) ==
    IF ~track_is_none /\ d = "Recvonly"
    THEN [store |-> Some("Sendrecv"), result |-> "Ok"]
    ELSE IF ~track_is_none /\ d = "Inactive"
    THEN [store |-> Some("Sendonly"), result |-> "Ok"]
    ELSE IF track_is_none /\ d = "Sendrecv"
    THEN [store |-> Some("Recvonly"), result |-> "Ok"]
    ELSE IF ~track_is_none /\ (d = "Sendonly" \/ d = "Sendrecv")
    THEN [store |-> None, result |-> "Ok"]
    ELSE IF track_is_none /\ d = "Sendonly"
    THEN [store |-> Some("Inactive"), result |-> "Ok"]
    ELSE [store |-> Some("Inactive"),
          result |-> "ErrRTPTransceiverSetSendingInvalidState"]

\* The chain with the targets of its two branches without a track exchanged:
\* Sendrecv becomes Inactive and Sendonly becomes Recvonly.
sending_direction_drops_receive(track_is_none, d) ==
    IF ~track_is_none /\ d = "Recvonly"
    THEN [store |-> Some("Sendrecv"), result |-> "Ok"]
    ELSE IF ~track_is_none /\ d = "Inactive"
    THEN [store |-> Some("Sendonly"), result |-> "Ok"]
    ELSE IF track_is_none /\ d = "Sendrecv"
    THEN [store |-> Some("Inactive"), result |-> "Ok"]
    ELSE IF ~track_is_none /\ (d = "Sendonly" \/ d = "Sendrecv")
    THEN [store |-> None, result |-> "Ok"]
    ELSE IF track_is_none /\ d = "Sendonly"
    THEN [store |-> Some("Recvonly"), result |-> "Ok"]
    ELSE [store |-> None, result |-> "ErrRTPTransceiverSetSendingInvalidState"]

\* The if/else chain of set_sending_track: the direction to store (None when
\* no store is made) and the result.
sending_direction(track_is_none, d) ==
    IF ~track_is_none /\ d = "Recvonly"
    THEN [store |-> Some("Sendrecv"), result |-> "Ok"]
    ELSE IF ~track_is_none /\ d = "Inactive"
    THEN [store |-> Some("Sendonly"), result |-> "Ok"]
    ELSE IF track_is_none /\ d = "Sendrecv"
    THEN [store |-> Some("Recvonly"), result |-> "Ok"]
    ELSE IF ~track_is_none /\ (d = "Sendonly" \/ d = "Sendrecv")
    THEN [store |-> None, result |-> "Ok"]
    ELSE IF track_is_none /\ d = "Sendonly"
    THEN [store |-> Some("Inactive"), result |-> "Ok"]
    ELSE [store |-> None, result |-> "ErrRTPTransceiverSetSendingInvalidState"]

\* set_sending_track dropping the sender after the chain, when it has returned
\* Ok, and not before it.
set_sending_track_keeps_sender(s, d, track, replace_ok) ==
    LET track_is_none == track = None
        calls == IF s # None THEN << "sender.replace_track" >> ELSE << >>
    IN  IF s # None /\ ~replace_ok
        THEN [sender |-> s, direction |-> d, result |-> "ErrReplaceTrack",
              calls |-> calls]
        ELSE LET out == sending_direction(track_is_none, DirectionFromU8(d))
             IN  [sender |-> IF track_is_none /\ out.result = "Ok" THEN None ELSE s,
                  direction |-> IF out.store # None
                                THEN DirectionAsU8(out.store[1]) ELSE d,
                  result |-> out.result,
                  calls |-> calls]

\* RTPTransceiver::set_sending_track. replace_ok is the result of the sender's
\* replace_track, which is called only when there is a sender.
set_sending_track(s, d, track, replace_ok) ==
    LET track_is_none == track = None
        calls == IF s # None THEN << "sender.replace_track" >> ELSE << >>
    IN  IF s # None /\ ~replace_ok
        THEN [sender |-> s, direction |-> d, result |-> "ErrReplaceTrack",
              calls |-> calls]
        ELSE LET out == sending_direction(track_is_none, DirectionFromU8(d))
             IN  [sender |-> IF track_is_none THEN None ELSE s,
                  direction |-> IF out.store # None
                                THEN DirectionAsU8(out.store[1]) ELSE d,
                  result |-> out.result,
                  calls |-> calls]

\* RTPTransceiver::set_sender
set_sender(s, d, track, replace_ok) == set_sending_track(s, d, track, replace_ok)

\* ------------------------------------------------------- the pool's code

\* Vec::remove(i), with the index counted from 1.
Remove(v, i) == SubSeq(v, 1, i - 1) \o SubSeq(v, i + 1, Len(v))

\* find_by_mid with Vec::swap_remove in the place of Vec::remove: the last
\* element takes the place of the one removed.
find_by_mid_swap_remove(m, pool) ==
    LET HasMid(t) == t.mid = m
        i == FirstIndex({ j \in Indices(pool) : HasMid(pool[j]) })
    IN  IF i # 0
        THEN [found |-> Some(pool[i]),
              pool |-> IF i = Len(pool) THEN SubSeq(pool, 1, i - 1)
                       ELSE [j \in 1..(Len(pool) - 1) |->
                               IF j = i THEN pool[Len(pool)] ELSE pool[j]]]
        ELSE [found |-> None, pool |-> pool]

\* find_by_mid returning a clone of the Arc and leaving the pool as it is.
find_by_mid_keeps(m, pool) ==
    LET HasMid(t) == t.mid = m
        i == FirstIndex({ j \in Indices(pool) : HasMid(pool[j]) })
    IN  IF i # 0 THEN [found |-> Some(pool[i]), pool |-> pool]
        ELSE [found |-> None, pool |-> pool]

\* find_by_mid taking the empty mid for "no mid" and returning nothing for it.
find_by_mid_skips_empty(m, pool) ==
    LET HasMid(t) == t.mid = m
        i == FirstIndex({ j \in Indices(pool) : HasMid(pool[j]) })
    IN  IF m # "" /\ i # 0
        THEN [found |-> Some(pool[i]), pool |-> Remove(pool, i)]
        ELSE [found |-> None, pool |-> pool]

\* find_by_mid: the first transceiver of the pool whose mid is the one asked
\* for is removed from the pool and returned.
find_by_mid(m, pool) ==
    LET HasMid(t) == t.mid = m
        i == FirstIndex({ j \in Indices(pool) : HasMid(pool[j]) })
    IN  IF i # 0 THEN [found |-> Some(pool[i]), pool |-> Remove(pool, i)]
        ELSE [found |-> None, pool |-> pool]

\* get_preferred_directions answering a remote Inactive as a remote Sendrecv.
get_preferred_directions_inactive(remote_direction) ==
    CASE remote_direction = "Sendrecv" -> << "Recvonly", "Sendrecv" >>
      [] remote_direction = "Sendonly" -> << "Recvonly" >>
      [] remote_direction = "Recvonly" -> << "Sendonly", "Sendrecv" >>
      [] remote_direction = "Inactive" -> << "Recvonly", "Sendrecv" >>
      [] OTHER -> << >>

\* The closure get_preferred_directions of satisfy_type_and_direction.
get_preferred_directions(remote_direction) ==
    CASE remote_direction = "Sendrecv" -> << "Recvonly", "Sendrecv" >>
      [] remote_direction = "Sendonly" -> << "Recvonly" >>
      [] remote_direction = "Recvonly" -> << "Sendonly", "Sendrecv" >>
      [] OTHER -> << >>

\* The loops of satisfy_type_and_direction: the outer one over the preferred
\* directions left, the inner one over the pool.
RECURSIVE satisfy_loop(_, _, _)
satisfy_loop(possible, remote_kind, pool) ==
    IF possible = << >> THEN [found |-> None, pool |-> pool]
    ELSE LET Fits(t) == /\ t.mid = ""
                        /\ t.kind = remote_kind
                        /\ Head(possible) = DirectionFromU8(t.direction)
             i == FirstIndex({ j \in Indices(pool) : Fits(pool[j]) })
         IN  IF i # 0 THEN [found |-> Some(pool[i]), pool |-> Remove(pool, i)]
             ELSE satisfy_loop(Tail(possible), remote_kind, pool)

\* satisfy_type_and_direction with its loops exchanged: the first transceiver
\* of the pool that fits any of the preferred directions.
satisfy_type_and_direction_pool_first(remote_kind, remote_direction, pool) ==
    LET possible == get_preferred_directions(remote_direction)
        Fits(t) == /\ t.mid = ""
                   /\ t.kind = remote_kind
                   /\ \E j \in 1..Len(possible) :
                         possible[j] = DirectionFromU8(t.direction)
        i == FirstIndex({ j \in Indices(pool) : Fits(pool[j]) })
    IN  IF i # 0 THEN [found |-> Some(pool[i]), pool |-> Remove(pool, i)]
        ELSE [found |-> None, pool |-> pool]

\* satisfy_type_and_direction
satisfy_type_and_direction(remote_kind, remote_direction, pool) ==
    satisfy_loop(get_preferred_directions(remote_direction), remote_kind, pool)

\* ---------------------------------------------------------------- actions

NoCall == [op |-> "new", arg |-> None, track |-> None, result |-> "Ok",
           calls |-> << >>, ret |-> << >>,
           pre |-> [mid |-> "", sender |-> None, receiver |-> None,
                    direction |-> "Inactive", codecs |-> << >>,
                    stop_ok |-> FALSE, attached_from |-> None,
                    reset_of |-> None]]

\* No pool: the state of the pool where only one transceiver is explored.
NoPoolCall == [op |-> "none", mid |-> "", kind |-> "Audio", direction |-> "Inactive",
               found |-> None, pre |-> << >>]

InitNoPool ==
    /\ local_transceivers = << >>
    /\ pool_call = NoPoolCall
    /\ taken = {}
    /\ retaken = FALSE

InitHistory ==
    /\ last = NoCall
    /\ mid_ok = 0
    /\ mid_assigned = 0
    /\ first_mid = ""
    /\ stop_ok = FALSE
    /\ codecs_tiers = TiersOf(codecs, media_engine, kind)

\* No tasks: the history of the loads and stores where the calls are explored
\* one after the other.
InitNoConc ==
    /\ written = { }
    /\ latest = [by |-> "new", value |-> "Inactive"]
    /\ observed = None

\* The transceiver as RTPTransceiver::new leaves it, for every receiver,
\* sender, direction and kind, under the default media engine.
Init ==
    /\ \E r \in Receivers, s \in Senders, d \in Directions, k \in Kinds :
          LET t == new(r, s, d, k, << >>, DefaultMediaEngine)
          IN  /\ mid = t.mid
              /\ sender = t.sender
              /\ receiver = t.receiver
              /\ direction = t.direction
              /\ codecs = t.codecs
              /\ stopped = t.stopped
              /\ kind = t.kind
              /\ media_engine = t.media_engine
    /\ InitHistory
    /\ InitNoPool
    /\ InitNoConc

\* A call of set_codec_preferences is suspended in an await. It holds the
\* transceiver by &mut self, so no other call on the transceiver is made until
\* it returns.
Suspended == last.result = "Pending"

\* set_codec_preferences is called and runs to its first await, or, with no
\* codec to ask about, to its return.
SetCodecPreferences(cs) ==
    LET out == set_codec_preferences(codecs, cs, 0, media_engine, kind)
    IN  /\ ~Suspended
        /\ codecs' = out.codecs
        /\ last' = Call("set_codec_preferences", cs, None, out.result, << >>, << >>)
        /\ codecs_tiers' = IF out.result = "Ok"
                           THEN TiersOf(cs, media_engine, kind)
                           ELSE codecs_tiers
        /\ UNCHANGED << mid, sender, receiver, direction, stopped, kind, media_engine >>
        /\ UNCHANGED << mid_ok, mid_assigned, first_mid, stop_ok >>
        /\ UNCHANGED << pvars, cvars >>

\* An await of the suspended set_codec_preferences returns the engine's codecs
\* as they are now, and the call runs to its next await or to its return.
\* last.ret keeps the match tier every codec asked about had in the codecs
\* its await returned.
SetCodecPreferencesQuery ==
    /\ Suspended
    /\ LET cs == last.arg
           i == Len(last.ret) + 1
           out == set_codec_preferences(codecs, cs, i, media_engine, kind)
       IN  /\ codecs' = out.codecs
           /\ last' = [last EXCEPT
                         !.result = out.result,
                         !.ret = Append(@, codec_parameters_fuzzy_search(
                                  cs[i], get_codecs_by_kind(media_engine, kind))[2])]
           /\ codecs_tiers' = IF out.result = "Ok"
                              THEN TiersOf(cs, media_engine, kind)
                              ELSE codecs_tiers
    /\ UNCHANGED << mid, sender, receiver, direction, stopped, kind, media_engine >>
    /\ UNCHANGED << mid_ok, mid_assigned, first_mid, stop_ok >>
    /\ UNCHANGED << pvars, cvars >>

GetCodecs ==
    /\ ~Suspended
    /\ last' = Call("get_codecs", None, None, "Ok", << >>,
                    get_codecs(codecs, media_engine, kind))
    /\ UNCHANGED tvars
    /\ UNCHANGED << mid_ok, mid_assigned, first_mid, stop_ok, codecs_tiers >>
    /\ UNCHANGED << pvars, cvars >>

SetSender(s, track, replace_ok) ==
    LET out == set_sender(s, direction, track, replace_ok)
    IN  /\ ~Suspended
        /\ sender' = out.sender
        /\ direction' = out.direction
        /\ last' = Call("set_sender", s, track, out.result, out.calls, << >>)
        /\ UNCHANGED << mid, receiver, codecs, stopped, kind, media_engine >>
        /\ UNCHANGED << mid_ok, mid_assigned, first_mid, stop_ok, codecs_tiers >>
        /\ UNCHANGED << pvars, cvars >>

\* A call that would succeed is made only while fewer than MaxSetMid have.
SetMid(m) ==
    LET out == set_mid(mid, m)
    IN  /\ ~Suspended
        /\ out.result = "Ok" => mid_ok < MaxSetMid
        /\ mid' = out.mid
        /\ last' = Call("set_mid", m, None, out.result, << >>, << >>)
        /\ mid_ok' = IF out.result = "Ok" THEN mid_ok + 1 ELSE mid_ok
        /\ mid_assigned' = IF out.result = "Ok" /\ m # ""
                           THEN mid_assigned + 1 ELSE mid_assigned
        /\ first_mid' = IF first_mid = "" THEN out.mid ELSE first_mid
        /\ UNCHANGED << sender, receiver, direction, codecs, stopped, kind, media_engine >>
        /\ UNCHANGED << stop_ok, codecs_tiers >>
        /\ UNCHANGED << pvars, cvars >>

SetDirection(d) ==
    /\ ~Suspended
    /\ direction' = set_direction(d)
    /\ last' = Call("set_direction", d, None, "Ok", << >>, << >>)
    /\ stop_ok' = FALSE
    /\ UNCHANGED << mid, sender, receiver, codecs, stopped, kind, media_engine >>
    /\ UNCHANGED << mid_ok, mid_assigned, first_mid, codecs_tiers >>
    /\ UNCHANGED << pvars, cvars >>

Stop(sender_ok, receiver_ok) ==
    LET out == stop(sender, receiver, direction, sender_ok, receiver_ok)
    IN  /\ ~Suspended
        /\ sender' = out.sender
        /\ receiver' = out.receiver
        /\ direction' = out.direction
        /\ last' = Call("stop", << sender_ok, receiver_ok >>, None, out.result,
                        out.calls, << >>)
        /\ stop_ok' = (stop_ok \/ out.result = "Ok")
        /\ UNCHANGED << mid, codecs, stopped, kind, media_engine >>
        /\ UNCHANGED << mid_ok, mid_assigned, first_mid, codecs_tiers >>
        /\ UNCHANGED << pvars, cvars >>

SetSendingTrack(track, replace_ok) ==
    LET out == set_sending_track(sender, direction, track, replace_ok)
    IN  /\ ~Suspended
        /\ sender' = out.sender
        /\ direction' = out.direction
        /\ last' = Call("set_sending_track", None, track, out.result, out.calls, << >>)
        /\ UNCHANGED << mid, receiver, codecs, stopped, kind, media_engine >>
        /\ UNCHANGED << mid_ok, mid_assigned, first_mid, stop_ok, codecs_tiers >>
        /\ UNCHANGED << pvars, cvars >>

\* MediaEngine: another holder of the Arc changes the codecs of the engine,
\* between two calls on the transceiver or while set_codec_preferences is
\* suspended.
UpdateMediaEngine(engine) ==
    /\ media_engine' = engine
    /\ last' = IF Suspended THEN last
               ELSE Call("update_media_engine", engine, None, "Ok", << >>, << >>)
    /\ UNCHANGED << mid, sender, receiver, direction, codecs, stopped, kind >>
    /\ UNCHANGED << mid_ok, mid_assigned, first_mid, stop_ok, codecs_tiers >>
    /\ UNCHANGED << pvars, cvars >>

Next ==
    \/ \E cs \in FewCodecLists : SetCodecPreferences(cs)
    \/ SetCodecPreferencesQuery
    \/ \E s \in Senders, track \in Tracks, ok \in BOOLEAN : SetSender(s, track, ok)
    \/ \E m \in Mids : SetMid(m)
    \/ \E d \in Directions : SetDirection(d)
    \/ \E sender_ok \in BOOLEAN, receiver_ok \in BOOLEAN : Stop(sender_ok, receiver_ok)
    \/ \E track \in Tracks, ok \in BOOLEAN : SetSendingTrack(track, ok)

Spec == Init /\ [][Next]_vars

\* The codec preferences alone: a transceiver constructed with any codec list
\* under any media engine, whose preferences are set and read while the
\* engine's codecs change.
InitCodecs ==
    /\ \E k \in Kinds, cs \in CodecLists, engine \in MediaEngines :
          LET t == new(None, None, "Sendrecv", k, cs, engine)
          IN  /\ mid = t.mid
              /\ sender = t.sender
              /\ receiver = t.receiver
              /\ direction = t.direction
              /\ codecs = t.codecs
              /\ stopped = t.stopped
              /\ kind = t.kind
              /\ media_engine = t.media_engine
    /\ InitHistory
    /\ InitNoPool
    /\ InitNoConc

NextCodecs ==
    \/ \E cs \in CodecLists : SetCodecPreferences(cs)
    \/ SetCodecPreferencesQuery
    \/ GetCodecs
    \/ \E engine \in MediaEngines : UpdateMediaEngine(engine)

SpecCodecs == InitCodecs /\ [][NextCodecs]_vars

\* The pool: transceivers that differ in mid, kind and direction, each with
\* its place in the first pool as its identity.
PoolMids == { "", "m1" }
\* The directions of the transceivers in the pool: the three that some remote
\* direction prefers.
PoolDirections == { "Sendrecv", "Sendonly", "Recvonly" }
PoolTransceiver(i, m, k, d) ==
    [id |-> i, mid |-> m, kind |-> k, direction |-> DirectionAsU8(d)]
PoolOf(f) == [i \in DOMAIN f |-> PoolTransceiver(i, f[i][1], f[i][2], f[i][3])]

InitPool ==
    /\ \E n \in 0..MaxPool :
          \E f \in [1..n -> PoolMids \X Kinds \X PoolDirections] :
              local_transceivers = PoolOf(f)
    /\ pool_call = NoPoolCall
    /\ taken = {}
    /\ retaken = FALSE
    /\ LET t == new(None, None, "Inactive", "Audio", << >>, DefaultMediaEngine)
       IN  /\ mid = t.mid
           /\ sender = t.sender
           /\ receiver = t.receiver
           /\ direction = t.direction
           /\ codecs = t.codecs
           /\ stopped = t.stopped
           /\ kind = t.kind
           /\ media_engine = t.media_engine
    /\ InitHistory
    /\ InitNoConc

Took(found) ==
    /\ taken' = taken \cup { t.id : t \in { found[i] : i \in 1..Len(found) } }
    /\ retaken' = (retaken \/ \E i \in 1..Len(found) : found[i].id \in taken)

FindByMid(m) ==
    LET out == find_by_mid(m, local_transceivers)
    IN  /\ local_transceivers' = out.pool
        /\ pool_call' = [op |-> "find_by_mid", mid |-> m, kind |-> "Audio",
                         direction |-> "Inactive", found |-> out.found,
                         pre |-> local_transceivers]
        /\ Took(out.found)
        /\ UNCHANGED << tvars, hvars, cvars >>

SatisfyTypeAndDirection(remote_kind, remote_direction) ==
    LET out == satisfy_type_and_direction(remote_kind, remote_direction,
                                          local_transceivers)
    IN  /\ local_transceivers' = out.pool
        /\ pool_call' = [op |-> "satisfy_type_and_direction", mid |-> "",
                         kind |-> remote_kind, direction |-> remote_direction,
                         found |-> out.found, pre |-> local_transceivers]
        /\ Took(out.found)
        /\ UNCHANGED << tvars, hvars, cvars >>

NextPool ==
    \/ \E m \in PoolMids : FindByMid(m)
    \/ \E k \in Kinds, d \in AllDirections : SatisfyTypeAndDirection(k, d)

SpecPool == InitPool /\ [][NextPool]_vars

\* Tasks that share the transceiver, each call one step. direction() and
\* set_direction take &self and are one load and one store of the AtomicU8.
\* stop and set_sending_track take &mut self, and set_sending_track has no
\* await between its load of the direction and its store: no other call on
\* the transceiver comes between the two, nor into a stop, so a task makes
\* the whole call between the calls of the others. The transceiver has no
\* sender and no receiver, so the calls on them are not made.
InitConc ==
    /\ \E d \in Directions :
          LET t == new(None, None, d, "Audio", << >>, DefaultMediaEngine)
          IN  /\ mid = t.mid
              /\ sender = t.sender
              /\ receiver = t.receiver
              /\ direction = t.direction
              /\ codecs = t.codecs
              /\ stopped = t.stopped
              /\ kind = t.kind
              /\ media_engine = t.media_engine
    /\ InitHistory
    /\ InitNoPool
    /\ written = { Direction }
    /\ latest = [by |-> "new", value |-> Direction]
    /\ observed = None

\* What the history keeps of a call by that has left u8 in the AtomicU8: a
\* call that stores has stored the direction d.
Stored(by, u8, d) ==
    /\ direction' = u8
    /\ written' = written \cup { d }
    /\ latest' = [by |-> by, value |-> d]

\* A task calls set_direction(d).
ConcSetDirection(d) ==
    /\ Stored("set_direction", set_direction(d), d)
    /\ UNCHANGED << mid, sender, receiver, codecs, stopped, kind, media_engine >>
    /\ UNCHANGED << hvars, pvars, observed >>

\* A task calls direction().
ConcDirection ==
    /\ observed' = Some([value |-> Direction, latest |-> latest,
                         written |-> written])
    /\ UNCHANGED << tvars, hvars, pvars, written, latest >>

\* A task calls set_sending_track: the load of the direction, the chain and
\* the store the chain makes are one step.
ConcSetSendingTrack(track) ==
    LET out == set_sending_track(sender, direction, track, TRUE)
        chain == sending_direction(track = None, Direction)
    IN  /\ sender' = out.sender
        /\ IF chain.store # None
           THEN Stored("set_sending_track", out.direction, chain.store[1])
           ELSE /\ direction' = out.direction
                /\ UNCHANGED << written, latest >>
        /\ UNCHANGED << mid, receiver, codecs, stopped, kind, media_engine >>
        /\ UNCHANGED << hvars, pvars, observed >>

\* A task calls stop, which stores Inactive.
ConcStop ==
    LET out == stop(sender, receiver, direction, TRUE, TRUE)
    IN  /\ sender' = out.sender
        /\ receiver' = out.receiver
        /\ Stored("stop", out.direction, "Inactive")
        /\ UNCHANGED << mid, codecs, stopped, kind, media_engine >>
        /\ UNCHANGED << hvars, pvars, observed >>

NextConc ==
    \/ \E d \in Directions : ConcSetDirection(d)
    \/ ConcDirection
    \/ \E track \in Tracks : ConcSetSendingTrack(track)
    \/ ConcStop

SpecConc == InitConc /\ [][NextConc]_vars

\* ----------------------------------------------------------------- claims

SendingCalls == { "set_sending_track", "set_sender" }

\* C1: set_sending_track follows the direction table. When replace_track does
\* not fail: Recvonly with a track becomes Sendrecv, Inactive with a track
\* Sendonly, Sendrecv without a track Recvonly, Sendonly without a track
\* Inactive, all with Ok; Sendonly or Sendrecv with a track is Ok and leaves
\* the direction; Recvonly or Inactive without a track is the invalid-state
\* error and leaves the direction. When replace_track fails the direction is
\* left as well.
C1_DirectionTable ==
    last.op \in SendingCalls =>
        LET d == last.pre.direction
            has_track == last.track # None
            ok == last.result = "Ok"
        IN  IF last.result = "ErrReplaceTrack" THEN Direction = d
            ELSE /\ (d = "Recvonly" /\ has_track) => (ok /\ Direction = "Sendrecv")
                 /\ (d = "Inactive" /\ has_track) => (ok /\ Direction = "Sendonly")
                 /\ (d = "Sendrecv" /\ ~has_track) => (ok /\ Direction = "Recvonly")
                 /\ (d = "Sendonly" /\ ~has_track) => (ok /\ Direction = "Inactive")
                 /\ (d \in { "Sendonly", "Sendrecv" } /\ has_track)
                        => (ok /\ Direction = d)
                 /\ (d \in { "Recvonly", "Inactive" } /\ ~has_track)
                        => /\ last.result = "ErrRTPTransceiverSetSendingInvalidState"
                           /\ Direction = d

\* A Recvonly transceiver was given a track and is Sendrecv.
C1_Witness ==
    /\ last.op = "set_sending_track"
    /\ last.pre.direction = "Recvonly"
    /\ last.track # None
    /\ last.result = "Ok"
    /\ Direction = "Sendrecv"

\* C2: a mid that is not empty never changes. The mid is the first non-empty
\* value stored, and a set_mid call made while the mid is not empty fails with
\* the cannot-change-mid error and leaves the mid.
C2_MidNeverChanges ==
    /\ first_mid # "" => mid = first_mid
    /\ (last.op = "set_mid" /\ last.pre.mid # "")
          => /\ last.result = "ErrRTPTransceiverCannotChangeMid"
             /\ mid = last.pre.mid

\* set_mid("m2") was called on a transceiver whose mid was "m1".
C2_Witness ==
    /\ last.op = "set_mid"
    /\ last.pre.mid = "m1"
    /\ last.arg = "m2"
    /\ last.result = "ErrRTPTransceiverCannotChangeMid"
    /\ mid = "m1"

\* C3 as claimed: over any sequence of set_mid calls, with any arguments, at
\* most one call succeeds.
C3_AtMostOneSetMidSucceeds == mid_ok <= 1

\* C3 as amended: at most one set_mid call with a non-empty argument succeeds,
\* and whenever a call has succeeded with a non-empty argument the mid is not
\* empty; calls with the empty string succeed while the mid is empty and leave
\* it empty.
C3_AtMostOneAssignment ==
    /\ mid_assigned <= 1
    /\ mid_assigned = 1 <=> mid # ""
    /\ (last.op = "set_mid" /\ last.arg = "" /\ last.pre.mid = "")
          => (last.result = "Ok" /\ mid = "")

\* Two set_mid calls have succeeded, one of them with a non-empty argument,
\* and a further call with a non-empty argument has failed.
C3_Witness ==
    /\ mid_ok = 2
    /\ mid_assigned = 1
    /\ last.op = "set_mid"
    /\ last.arg # ""
    /\ last.result = "ErrRTPTransceiverCannotChangeMid"

\* The tier of the i-th codec of the last set_codec_preferences against the
\* codecs the engine had for the transceiver's kind when the call asked for
\* them for that codec.
TierAsked(i) == last.ret[i]

\* C4, as stated, with one list of the engine for the whole call, the one the
\* engine has when the call returns: with a candidate that has no match in it
\* the call fails and the stored list is as before, and with every candidate
\* matched the stored list is the input. The call asks the engine anew for
\* every candidate, so a list none of the engine's lists matches in whole can
\* be stored.
C4_AllOrNothingOneCatalog ==
    (last.op = "set_codec_preferences" /\ last.result # "Pending") =>
        IF \E i \in Indices(last.arg) :
              codec_parameters_fuzzy_search(
                  last.arg[i], get_codecs_by_kind(media_engine, kind))[2] = "None"
        THEN /\ last.result = "ErrRTPTransceiverCodecUnsupported"
             /\ codecs = last.pre.codecs
        ELSE /\ last.result = "Ok"
             /\ codecs = last.arg

\* C4, amended: set_codec_preferences is all-or-nothing. With a candidate that
\* has no match in the engine's codecs the call asked for, the call fails with the
\* unsupported-codec error and the stored list, and with it the result of
\* get_codecs on the engine as it is, is as before the call; with every
\* candidate matched the call succeeds and the stored list is the input.
\* Until the call returns the stored list is as before the call.
C4_AllOrNothing ==
    last.op = "set_codec_preferences" =>
        IF last.result = "Pending"
        THEN /\ codecs = last.pre.codecs
             /\ Len(last.ret) < Len(last.arg)
        ELSE IF \E i \in Indices(last.ret) : TierAsked(i) = "None"
        THEN /\ last.result = "ErrRTPTransceiverCodecUnsupported"
             /\ codecs = last.pre.codecs
             /\ get_codecs(codecs, media_engine, kind)
                  = get_codecs(last.pre.codecs, media_engine, kind)
        ELSE /\ last.result = "Ok"
             /\ Len(last.ret) = Len(last.arg)
             /\ codecs = last.arg

\* A list of opus and opus, the first matched and the second not as the
\* engine lost its opus between the two, was refused by a transceiver that had
\* other preferences stored.
C4_Witness ==
    /\ last.op = "set_codec_preferences"
    /\ last.arg = << OpusExact, OpusPartial >>
    /\ Len(last.ret) = 2
    /\ TierAsked(1) = "Exact"
    /\ TierAsked(2) = "None"
    /\ last.result = "ErrRTPTransceiverCodecUnsupported"
    /\ codecs # << >>
    /\ codecs # << last.arg[1] >>

\* The sender's, and the receiver's, stop succeeded in the last stop call, or
\* there was none to stop.
SenderStopFine == last.pre.sender = None \/ last.arg[1]
ReceiverStopFine == last.pre.receiver = None \/ last.arg[2]

\* C5: a stop in which the sender's and the receiver's stop succeed, or are not
\* there, returns Ok and leaves the direction Inactive, whatever the direction,
\* the sender and the receiver were.
C5_StopForcesInactive ==
    (last.op = "stop" /\ SenderStopFine /\ ReceiverStopFine)
        => (last.result = "Ok" /\ Direction = "Inactive")

\* A Sendrecv transceiver with a sender and a receiver was stopped.
C5_Witness ==
    /\ last.op = "stop"
    /\ last.pre.direction = "Sendrecv"
    /\ last.pre.sender # None
    /\ last.pre.receiver # None
    /\ last.result = "Ok"
    /\ Direction = "Inactive"

\* C6: stop stops the sender before the receiver and ends at the first
\* failure. If the sender's stop fails the receiver's is not attempted, the
\* error is returned and the direction is left; if the sender's stop succeeds
\* and the receiver's fails, the error is returned, the direction is left and
\* the sender is stopped.
C6_StopShortCircuits ==
    last.op = "stop" =>
        /\ (last.pre.sender # None /\ ~last.arg[1])
              => /\ last.calls = << "sender.stop" >>
                 /\ last.result = "ErrSenderStop"
                 /\ Direction = last.pre.direction
                 /\ receiver = last.pre.receiver
        /\ (last.pre.sender # None /\ last.arg[1]
              /\ last.pre.receiver # None /\ ~last.arg[2])
              => /\ last.calls = << "sender.stop", "receiver.stop" >>
                 /\ last.result = "ErrReceiverStop"
                 /\ Direction = last.pre.direction
                 /\ sender = Some([stopped |-> TRUE])
        /\ \A i, j \in 1..Len(last.calls) :
              (last.calls[i] = "receiver.stop" /\ last.calls[j] = "sender.stop")
                  => j < i

\* The sender of a Sendrecv transceiver was stopped and the receiver's stop
\* failed.
C6_Witness ==
    /\ last.op = "stop"
    /\ last.pre.direction = "Sendrecv"
    /\ last.pre.sender = Some([stopped |-> FALSE])
    /\ last.pre.receiver = Some([stopped |-> FALSE])
    /\ last.result = "ErrReceiverStop"
    /\ sender = Some([stopped |-> TRUE])
    /\ Direction = "Sendrecv"

\* C7 as claimed: once stop has returned Ok the direction is Inactive in every
\* later state, whatever set_sending_track, set_sender, set_mid,
\* set_codec_preferences and stop calls follow.
C7_StopIsIrreversible == stop_ok => Direction = "Inactive"

\* The pool, the arguments and the result of the last call on the pool.
PoolBefore == pool_call.pre
Found == pool_call.found

\* v is w without its i-th element, the others in their order.
IsWithout(v, w, i) ==
    /\ Len(v) = Len(w) - 1
    /\ \A j \in 1..Len(v) : v[j] = IF j < i THEN w[j] ELSE w[j + 1]

\* C8: find_by_mid returns the transceiver at the lowest index of the pool
\* whose mid is the target and removes that element alone, the others staying
\* in their order; with no such transceiver it returns nothing and leaves the
\* pool.
C8_FindByMidFirstMatch ==
    pool_call.op = "find_by_mid" =>
        LET hits == { i \in 1..Len(PoolBefore) : PoolBefore[i].mid = pool_call.mid }
        IN  IF hits = {}
            THEN Found = None /\ local_transceivers = PoolBefore
            ELSE \E i \in hits :
                    /\ \A j \in hits : i <= j
                    /\ Found = Some(PoolBefore[i])
                    /\ IsWithout(local_transceivers, PoolBefore, i)

\* find_by_mid("m1") on a pool with the mids "", "m1", "m1" has returned the
\* second transceiver and left the first and the third.
C8_Witness ==
    /\ pool_call.op = "find_by_mid"
    /\ pool_call.mid = "m1"
    /\ Len(PoolBefore) = 3
    /\ << PoolBefore[1].mid, PoolBefore[2].mid, PoolBefore[3].mid >> = << "", "m1", "m1" >>
    /\ Found # None
    /\ Found[1].id = PoolBefore[2].id
    /\ local_transceivers = << PoolBefore[1], PoolBefore[3] >>

\* The local directions that answer a remote direction, most preferred first,
\* as the claims give them.
PreferenceOrder(remote_direction) ==
    IF remote_direction = "Sendrecv" THEN << "Recvonly", "Sendrecv" >>
    ELSE IF remote_direction = "Sendonly" THEN << "Recvonly" >>
    ELSE IF remote_direction = "Recvonly" THEN << "Sendonly", "Sendrecv" >>
    ELSE << >>

\* Transceiver t has no mid, the remote kind, and local direction d.
Eligible(t, d) ==
    /\ t.mid = ""
    /\ t.kind = pool_call.kind
    /\ DirectionFromU8(t.direction) = d

\* C9: in satisfy_type_and_direction the preference of directions comes before
\* the order of the pool. When a transceiver is eligible for a preferred
\* direction, the one returned is the first of the pool among those eligible
\* for the most preferred direction that any transceiver is eligible for.
C9_PreferenceBeforePoolOrder ==
    pool_call.op = "satisfy_type_and_direction" =>
        LET prefs == PreferenceOrder(pool_call.direction)
            tiers == { k \in 1..Len(prefs) :
                         \E i \in 1..Len(PoolBefore) : Eligible(PoolBefore[i], prefs[k]) }
        IN  tiers # {} =>
              \E k \in tiers, i \in 1..Len(PoolBefore) :
                  /\ \A k2 \in tiers : k <= k2
                  /\ Eligible(PoolBefore[i], prefs[k])
                  /\ \A j \in 1..(i - 1) : ~Eligible(PoolBefore[j], prefs[k])
                  /\ Found = Some(PoolBefore[i])
                  /\ IsWithout(local_transceivers, PoolBefore, i)

\* For a remote Sendrecv the Recvonly transceiver was returned although an
\* eligible Sendrecv transceiver stood before it in the pool.
C9_Witness ==
    /\ pool_call.op = "satisfy_type_and_direction"
    /\ pool_call.direction = "Sendrecv"
    /\ Len(PoolBefore) >= 2
    /\ Eligible(PoolBefore[1], "Sendrecv")
    /\ Eligible(PoolBefore[2], "Recvonly")
    /\ Found = Some(PoolBefore[2])
    /\ local_transceivers = Remove(PoolBefore, 2)

\* C10: satisfy_type_and_direction never returns an ineligible transceiver.
\* What it returns has no mid, the remote kind and a direction of the remote
\* direction's preference list; for a remote direction other than Sendrecv,
\* Sendonly and Recvonly, and when no transceiver of the pool is eligible, it
\* returns nothing and leaves the pool.
C10_OnlyEligibleReturned ==
    pool_call.op = "satisfy_type_and_direction" =>
        LET prefs == PreferenceOrder(pool_call.direction)
            Answers(t) == \E k \in 1..Len(prefs) : Eligible(t, prefs[k])
        IN  /\ Found # None => Answers(Found[1])
            /\ ( \/ pool_call.direction \notin { "Sendrecv", "Sendonly", "Recvonly" }
                 \/ \A i \in 1..Len(PoolBefore) : ~Answers(PoolBefore[i]) )
                  => (Found = None /\ local_transceivers = PoolBefore)

\* For a remote Inactive nothing was returned from a pool that holds a
\* Recvonly transceiver of the remote kind without a mid.
C10_Witness ==
    /\ pool_call.op = "satisfy_type_and_direction"
    /\ pool_call.direction = "Inactive"
    /\ \E i \in 1..Len(PoolBefore) : Eligible(PoolBefore[i], "Recvonly")
    /\ Found = None
    /\ local_transceivers = PoolBefore

\* The identities of the transceivers in the pool.
PoolIds == { local_transceivers[i].id : i \in Indices(local_transceivers) }

\* C11: a match consumes the transceiver. Over any sequence of find_by_mid and
\* satisfy_type_and_direction calls on one pool, a call that returns a
\* transceiver leaves the pool one shorter, no transceiver returned so far is
\* in the pool, and no transceiver has been returned by two calls.
C11_MatchConsumes ==
    /\ ~retaken
    /\ PoolIds \cap taken = {}
    /\ Found # None
          => /\ Len(local_transceivers) = Len(PoolBefore) - 1
             /\ Found[1].id \in taken
    /\ (pool_call.op # "none" /\ Found = None)
          => Len(local_transceivers) = Len(PoolBefore)

\* Two transceivers of a pool of three have been returned, the second by
\* satisfy_type_and_direction.
C11_Witness ==
    /\ pool_call.op = "satisfy_type_and_direction"
    /\ Found # None
    /\ Cardinality(taken) = 2
    /\ Len(PoolBefore) = 2
    /\ Len(local_transceivers) = 1

\* C20: find_by_mid does not take the empty mid for "unassigned". Called with
\* the empty string on a pool that holds a transceiver whose mid is empty, it
\* returns the first such transceiver and removes it from the pool.
C20_EmptyMidIsFound ==
    ( /\ pool_call.op = "find_by_mid"
      /\ pool_call.mid = ""
      /\ \E i \in Indices(PoolBefore) : PoolBefore[i].mid = "" )
        => /\ Found # None
           /\ Found[1].mid = ""
           /\ \A i \in Indices(PoolBefore) :
                 PoolBefore[i].id < Found[1].id => PoolBefore[i].mid # ""
           /\ Found[1].id \notin PoolIds
           /\ Len(local_transceivers) = Len(PoolBefore) - 1

\* find_by_mid("") on a pool whose first transceiver has a mid and whose second
\* has none has returned the second.
C20_Witness ==
    /\ pool_call.op = "find_by_mid"
    /\ pool_call.mid = ""
    /\ Len(PoolBefore) >= 2
    /\ PoolBefore[1].mid = "m1"
    /\ PoolBefore[2].mid = ""
    /\ Found = Some(PoolBefore[2])
    /\ local_transceivers = Remove(PoolBefore, 2)

\* C12: a set_sending_track call rejected with the invalid-state error, which
\* is one without a track on a Recvonly or Inactive transceiver, leaves the
\* direction as it was.
C12_RejectedKeepsDirection ==
    ( /\ last.op \in SendingCalls
      /\ last.result = "ErrRTPTransceiverSetSendingInvalidState" )
        => /\ last.track = None
           /\ last.pre.direction \in { "Recvonly", "Inactive" }
           /\ Direction = last.pre.direction

\* set_sending_track without a track was rejected on a Recvonly transceiver.
C12_Witness ==
    /\ last.op = "set_sending_track"
    /\ last.track = None
    /\ last.result = "ErrRTPTransceiverSetSendingInvalidState"
    /\ last.pre.direction = "Recvonly"
    /\ Direction = "Recvonly"

\* C17: set_sending_track without a track removes the sender before it looks
\* at the direction. When replace_track does not fail the sender is gone after
\* the call, whether it returned Ok or the invalid-state error, and so it is
\* after set_sender with a sender and no track; when replace_track fails the
\* error is returned and set_sending_track leaves the sender and the direction.
C17_SenderRemovedBeforeDirection ==
    /\ ( /\ last.op \in SendingCalls
         /\ last.track = None
         /\ last.result # "ErrReplaceTrack" )
          => /\ sender = None
             /\ last.result \in { "Ok", "ErrRTPTransceiverSetSendingInvalidState" }
    /\ (last.op = "set_sending_track" /\ last.result = "ErrReplaceTrack")
          => /\ last.pre.sender # None
             /\ sender = last.pre.sender
             /\ Direction = last.pre.direction
    /\ (last.op = "set_sender" /\ last.result = "ErrReplaceTrack")
          => /\ sender = last.arg
             /\ Direction = last.pre.direction

\* set_sending_track without a track was rejected with the invalid-state error
\* on an Inactive transceiver that had a sender, and the sender is gone.
C17_Witness ==
    /\ last.op = "set_sending_track"
    /\ last.track = None
    /\ last.pre.sender # None
    /\ last.pre.direction = "Inactive"
    /\ last.result = "ErrRTPTransceiverSetSendingInvalidState"
    /\ sender = None

\* C18: no operation writes the stopped flag. After any sequence of
\* operations, a successful stop among them, stopped is false as new left it,
\* and every stop, one on a transceiver stopped before as well, calls stop on
\* the sender there is and, when that succeeds, on the receiver there is.
C18_StoppedNeverWritten ==
    /\ stopped = FALSE
    /\ last.op = "stop"
          => /\ last.pre.sender # None
                  => (last.calls # << >> /\ last.calls[1] = "sender.stop")
             /\ (SenderStopFine /\ last.pre.receiver # None)
                  => (last.calls # << >>
                        /\ last.calls[Len(last.calls)] = "receiver.stop")

\* stop was called on a transceiver that stop had stopped, sender and receiver
\* with it: both were stopped again, and stopped is still false.
C18_Witness ==
    /\ last.op = "stop"
    /\ last.pre.stop_ok
    /\ last.pre.direction = "Inactive"
    /\ last.pre.sender = Some([stopped |-> TRUE])
    /\ last.pre.receiver = Some([stopped |-> TRUE])
    /\ last.calls = << "sender.stop", "receiver.stop" >>
    /\ last.result = "Ok"
    /\ stopped = FALSE

\* A transceiver of direction d receives.
Receives(d) == d \in { "Sendrecv", "Recvonly" }

\* C19: set_sending_track changes the sending half of the direction only.
\* Whether the transceiver receives is the same before and after every call;
\* after a successful call with a track the direction is Sendrecv or Sendonly,
\* after one without a track Recvonly or Inactive; and a track attached to a
\* Recvonly or Inactive transceiver and detached by the next call leaves the
\* direction it started from.
C19_OnlySendingHalfChanges ==
    last.op \in SendingCalls =>
        /\ Receives(Direction) = Receives(last.pre.direction)
        /\ (last.result = "Ok" /\ last.track # None)
              => Direction \in { "Sendrecv", "Sendonly" }
        /\ (last.result = "Ok" /\ last.track = None)
              => Direction \in { "Recvonly", "Inactive" }
        /\ (last.result = "Ok" /\ last.track = None /\ last.pre.attached_from # None)
              => Direction = last.pre.attached_from[1]

\* A track was attached to a Recvonly transceiver and detached by the next
\* call, and the transceiver is Recvonly again.
C19_Witness ==
    /\ last.op = "set_sending_track"
    /\ last.track = None
    /\ last.result = "Ok"
    /\ last.pre.attached_from = Some("Recvonly")
    /\ last.pre.direction = "Sendrecv"
    /\ Direction = "Recvonly"

\* C13: in every reachable state, the state right after construction with
\* the caller's codecs among them, each stored codec had a match tier other
\* than None against the engine's list of the transceiver's kind when it was
\* stored. new stores the caller's list without matching it.
C13_StoredCodecsMatched ==
    \A i \in Indices(codecs_tiers) : codecs_tiers[i] # "None"

\* The engine's list for the transceiver's kind, as it is now.
Catalog == get_codecs_by_kind(media_engine, kind)

\* The stored codecs that have a match in the catalog now, by index, and the
\* place of each in the list of those.
KeptNow ==
    { i \in Indices(codecs) :
        codec_parameters_fuzzy_search(codecs[i], Catalog)[2] # "None" }
RankNow(i) == Cardinality({ j \in KeptNow : j <= i })

\* C14: get_codecs with a non-empty stored list answers from the catalog as it
\* is at the call: the result has, in the order of the stored list, the
\* catalog's codec for each stored codec that has a match and nothing for one
\* that has none, so every codec returned is an entry of the catalog's list
\* for the kind; and the stored list is as it was before the call.
C14_GetCodecsResolvesAgain ==
    (last.op = "get_codecs" /\ last.pre.codecs # << >>) =>
        /\ Len(last.ret) = Cardinality(KeptNow)
        /\ \A i \in KeptNow :
              last.ret[RankNow(i)] = codec_parameters_fuzzy_search(codecs[i], Catalog)[1]
        /\ \A j \in Indices(last.ret) :
              \E n \in Indices(Catalog) : last.ret[j] = Catalog[n]
        /\ codecs = last.pre.codecs

\* The catalog changed after two codecs were stored; get_codecs dropped the
\* first, which has no match, and returned the catalog's codec for the second,
\* which differs from the stored one.
C14_Witness ==
    /\ last.op = "get_codecs"
    /\ Len(codecs) = 2
    /\ codecs_tiers # TiersOf(codecs, media_engine, kind)
    /\ KeptNow = { 2 }
    /\ last.ret = << OpusEngine >>
    /\ codecs[2] # OpusEngine
    /\ codecs = last.pre.codecs

\* C15: set_codec_preferences with the empty list succeeds whatever is stored
\* and whatever the catalog has, and leaves the stored list empty; get_codecs
\* on an empty stored list, the call after such a reset included, returns the
\* catalog's list for the transceiver's kind, in the catalog's order.
C15_ResetDefersToCatalog ==
    /\ (last.op = "set_codec_preferences" /\ last.arg = << >>)
          => /\ last.result = "Ok"
             /\ codecs = << >>
    /\ (last.op = "get_codecs" /\ last.pre.reset_of # None)
          => last.ret = Catalog
    /\ (last.op = "get_codecs" /\ codecs = << >>)
          => last.ret = Catalog

\* Two codecs were stored, the reset replaced them, and the get_codecs after
\* it returned the two codecs of the catalog.
C15_Witness ==
    /\ last.op = "get_codecs"
    /\ last.pre.reset_of # None
    /\ Len(last.pre.reset_of[1]) = 2
    /\ Len(Catalog) = 2
    /\ last.ret = << PcmuEngine, OpusEngine >>

\* C16: under every interleaving of the stores of set_direction,
\* set_sending_track and stop with the loads of direction(), what a load
\* returns is one of Sendrecv, Sendonly, Recvonly and Inactive, is the
\* constructed direction or one a completed store has written, and is the
\* direction of the latest store.
C16_ReadsSeeLatestWrite ==
    observed # None =>
        /\ observed[1].value \in Directions
        /\ observed[1].value \in observed[1].written
        /\ observed[1].value = observed[1].latest.value

\* A transceiver constructed Sendonly: tasks have stored Sendrecv, Inactive
\* and, by set_sending_track without a track, Recvonly, the latest; a task
\* has read Recvonly; and stop has stored Inactive since.
C16_Witness ==
    /\ observed # None
    /\ observed[1].value = "Recvonly"
    /\ observed[1].latest = [by |-> "set_sending_track", value |-> "Recvonly"]
    /\ observed[1].written = Directions
    /\ latest = [by |-> "stop", value |-> "Inactive"]
    /\ Direction = "Inactive"

====
